---- MODULE Spec2Model ----
(***************************************************************************)
(* Model of run.py of DL4neurons: the MPI work partitioner (get_mpi_idx),  *)
(* the parameter sampler (get_random_params, _rangeify), the normalizer    *)
(* (_normalize), the output container (create_h5, save_h5) and the         *)
(* per-rank driver (main, simulate).                                       *)
(*                                                                         *)
(* Real numbers are modelled as exact rationals <<num, den>> with den > 0, *)
(* kept in lowest terms; numpy's float64 rounding is not modelled.         *)
(***************************************************************************)
EXTENDS Integers, Sequences, FiniteSets, TLC

\* ------------------------------------------------------------------ bounds
MaxN == 10        \* largest total sample count
MaxW == 10        \* largest number of MPI ranks handed to get_mpi_idx
MaxRanks == 3     \* largest number of MPI ranks running main side by side
MaxNum == 3       \* largest --num / parameter file length of a run of main
MaxRows == 1      \* largest table the sampler is asked for
UDen == 2         \* np.random.rand draws from {0/UDen, ..., (UDen-1)/UDen}
MaxMinmax == 2    \* largest minmax handed to _normalize

VARIABLES
    n_tasks,      \* comm.Get_size(), or 1 when the mpi4py import fails
    nsamples,     \* the nsamples argument of get_mpi_idx
    idx,          \* rank -> <<start, stop>> returned by get_mpi_idx, or NoIdx
    model,        \* args.model
    sampler,      \* the sampling / normalization pipeline of one process
    args,         \* the command line: param_file, num, params, output, ...
    main,         \* rank -> position and locals of that rank's main(args)
    file          \* the HDF5 container args.outfile names

vars == <<n_tasks, nsamples, idx, model, sampler, args, main, file>>

NoIdx == <<>>

Ranks == 0 .. (n_tasks - 1)

Min(a, b) == IF a <= b THEN a ELSE b

\* --------------------------------------------------------------- rationals
Abs(a) == IF a < 0 THEN -a ELSE a

RECURSIVE GCD(_, _)
GCD(a, b) == IF b = 0 THEN a ELSE GCD(b, a % b)

\* the rational n/d (d # 0) in lowest terms with a positive denominator
Rat(n, d) ==
    LET g == GCD(Abs(n), Abs(d))
        sgn == IF d < 0 THEN -1 ELSE 1
    IN  <<sgn * (n \div g), sgn * (d \div g)>>

FromInt(k) == <<k, 1>>
RAdd(x, y) == Rat(x[1] * y[2] + y[1] * x[2], x[2] * y[2])
RSub(x, y) == Rat(x[1] * y[2] - y[1] * x[2], x[2] * y[2])
RMul(x, y) == Rat(x[1] * y[1], x[2] * y[2])
RDiv(x, y) == Rat(x[1] * y[2], x[2] * y[1])
RLe(x, y) == x[1] * y[2] <= y[1] * x[2]
RLt(x, y) == x[1] * y[2] < y[1] * x[2]

\* --------------------------------------------------- model constants 42-65
Models == {"izhi", "hh"}

DEFAULT_PARAMS ==
    [izhi |-> <<Rat(2, 100), Rat(2, 10), FromInt(-65), FromInt(2)>>,
     hh |-> <<Rat(12, 100), Rat(36, 1000), Rat(1, 10), Rat(3, 10000), FromInt(1)>>]

NPARAMS == [izhi |-> 4, hh |-> 5]

range_a == <<Rat(1, 100), Rat(1, 10)>>
range_b == <<Rat(1, 10), Rat(4, 10)>>
range_c == <<FromInt(-80), FromInt(-50)>>
range_d == <<Rat(5, 10), FromInt(10)>>

range_gnabar == <<Rat(8, 100), Rat(2, 10)>>
range_gkbar == <<Rat(2, 100), Rat(5, 100)>>
range_gcabar == <<Rat(5, 10), Rat(15, 100)>>
range_gl == <<Rat(15, 10000), Rat(45, 10000)>>
range_cm == <<Rat(7, 10), Rat(13, 10)>>

RANGES ==
    [izhi |-> <<range_a, range_b, range_c, range_d>>,
     hh |-> <<range_gnabar, range_gkbar, range_gcabar, range_gl, range_cm>>]

\* ----------------------------------------------------------------- sampler
\* A numpy 2-D array: its shape and its cells.
Table(nrows, ncols, cells) == [nrows |-> nrows, ncols |-> ncols, data |-> cells]

NoTable == Table(0, 0, <<>>)

NoSampler == [pc |-> "idle", params |-> NoTable, norm |-> NoTable, minmax |-> 0]

\* the values np.random.rand can return, all in [0, 1)
Draws == {Rat(k, UDen) : k \in 0 .. (UDen - 1)}

\* run.py 82-83
_rangeify(data, _range) == RAdd(RMul(data, RSub(_range[2], _range[1])), _range[1])

\* run.py 95-104: column j of rand is rescaled with the j-th izhi range
get_random_params_izhi(n, rand) ==
    LET ndim == NPARAMS["izhi"]
        rng == <<range_a, range_b, range_c, range_d>>
    IN  Table(n, ndim,
              [i \in 1 .. n |-> [j \in 1 .. ndim |-> _rangeify(rand[i][j], rng[j])]])

\* run.py 107-117
get_random_params_hh(n, rand) ==
    LET ndim == NPARAMS["hh"]
        rng == <<range_gnabar, range_gkbar, range_gcabar, range_gl, range_cm>>
    IN  Table(n, ndim,
              [i \in 1 .. n |-> [j \in 1 .. ndim |-> _rangeify(rand[i][j], rng[j])]])

\* run.py 86-92; rand is the outcome of np.random.rand(n, ndim)
get_random_params(m, n, rand) ==
    IF m = "izhi" THEN get_random_params_izhi(n, rand)
    ELSE get_random_params_hh(n, rand)

\* _normalize dividing by the maxima instead of by the widths max - min
_normalize_maxdiv(m, data, minmax) ==
    LET mins == [j \in 1 .. Len(RANGES[m]) |-> RANGES[m][j][1]]
        ranges == [j \in 1 .. Len(RANGES[m]) |-> RANGES[m][j][2]]
    IN  Table(data.nrows, data.ncols,
              [i \in 1 .. data.nrows |-> [j \in 1 .. data.ncols |->
                  RSub(RMul(FromInt(2 * minmax),
                            RDiv(RSub(data.data[i][j], mins[j]), ranges[j])),
                       FromInt(minmax))]])

\* _normalize without the final shift by - minmax
_normalize_noshift(m, data, minmax) ==
    LET mins == [j \in 1 .. Len(RANGES[m]) |-> RANGES[m][j][1]]
        ranges == [j \in 1 .. Len(RANGES[m]) |->
                      RSub(RANGES[m][j][2], RANGES[m][j][1])]
    IN  Table(data.nrows, data.ncols,
              [i \in 1 .. data.nrows |-> [j \in 1 .. data.ncols |->
                  RMul(FromInt(2 * minmax),
                       RDiv(RSub(data.data[i][j], mins[j]), ranges[j]))]])

\* run.py 206-213; np.tile repeats mins and ranges for every row of data
_normalize(m, data, minmax) ==
    LET mins == [j \in 1 .. Len(RANGES[m]) |-> RANGES[m][j][1]]
        ranges == [j \in 1 .. Len(RANGES[m]) |->
                      RSub(RANGES[m][j][2], RANGES[m][j][1])]
    IN  Table(data.nrows, data.ncols,
              [i \in 1 .. data.nrows |-> [j \in 1 .. data.ncols |->
                  RSub(RMul(FromInt(2 * minmax),
                            RDiv(RSub(data.data[i][j], mins[j]), ranges[j])),
                       FromInt(minmax))]])

\* ------------------------------------------------------------ get_mpi_idx
\* get_mpi_idx with an inclusive upper end (stop one row too far)
get_mpi_idx_inclusive(n, tasks, rank) ==
    LET params_per_task == (n \div tasks) + 1
        start == params_per_task * rank
        stop == Min(params_per_task * (rank + 1) + 1, n)
    IN  <<start, stop>>

\* get_mpi_idx with the block size rounded down (the "+ 1" forgotten)
get_mpi_idx_floor(n, tasks, rank) ==
    LET params_per_task == n \div tasks
        start == params_per_task * rank
        stop == Min(params_per_task * (rank + 1), n)
    IN  <<start, stop>>

\* get_mpi_idx without the clamp of stop to nsamples
get_mpi_idx_noclamp(n, tasks, rank) ==
    LET params_per_task == (n \div tasks) + 1
        start == params_per_task * rank
        stop == params_per_task * (rank + 1)
    IN  <<start, stop>>

\* run.py 120-127; rank and n_tasks are module globals there
get_mpi_idx(n, tasks, rank) ==
    LET params_per_task == (n \div tasks) + 1
        start == params_per_task * rank
        stop == Min(params_per_task * (rank + 1), n)
    IN  <<start, stop>>

\* --------------------------------------------------------------- create_h5
NSAMPLES == 10000

\* no file of that name on disk
NoFile == [exists |-> FALSE, datasets |-> {}, nrows |-> 0, ndim |-> 0,
           phys_par_range |-> NoTable, model |-> ""]

\* h5py.File(outfile, 'a') on a missing file: a new container without datasets
EmptyFile == [NoFile EXCEPT !.exists = TRUE]

\* np.stack of (min, max) pairs: one row per pair, two columns
Stack(pairs) == Table(Len(pairs), 2, pairs)

\* run.py 181-203: mode 'w' replaces whatever the file held.  phys_par,
\* norm_par and voltages get n rows, phys_par and norm_par NPARAMS[m]
\* columns; `model` remembers args.model of the creating call.  The time
\* axis of voltages and stim is not modelled.
create_h5(m, n) ==
    [exists |-> TRUE,
     datasets |-> {"phys_par", "norm_par", "phys_par_range", "voltages", "stim"},
     nrows |-> n,
     ndim |-> NPARAMS[m],
     phys_par_range |-> Stack(<<range_a, range_b, range_c, range_d>>),
     model |-> m]

\* run.py 456-457: nsamples = (args.num or NSAMPLES)
CreateRows(num) == IF num # <<>> /\ num[1] # 0 THEN num[1] ELSE NSAMPLES

\* -------------------------------------------------------------------- main
\* an option that was not given is <<>>, one given with value k is <<k>>
None == <<>>

\* output: any of plot_stim, plot_u, plot_v, outfile, force (run.py 379);
\* outfile: --outfile was given; dt_ok: h.stdinit() leaves h.dt equal to
\* args.dt (run.py 301-305)
NoArgs == [param_file |-> None, num |-> None, params |-> FALSE, output |-> FALSE,
           outfile |-> FALSE, dt_ok |-> TRUE]

\* i: samples simulated into buf; calls: calls of simulate; runs: calls of
\* h.run(); failed: a call of simulate raised; saves: calls of save_h5;
\* wrote: the datasets whose rows start..stop-1 this rank has written
NoMain == [pc |-> "idle", start |-> 0, stop |-> 0, nrows |-> 0, bufrows |-> 0,
           error |-> "none", i |-> 0, calls |-> 0, runs |-> 0, failed |-> FALSE,
           saves |-> 0, wrote |-> {}]

Max(a, b) == IF a >= b THEN a ELSE b

\* len(np.genfromtxt(file)) for a file of `rows` rows of D numbers: one row
\* (or none) comes back as a 1-D array, of length D (or 0)
GenFromTxtLen(rows, D) == IF rows = 0 THEN 0 ELSE IF rows = 1 THEN D ELSE rows

\* run.py 377-396 for rank r: the choice of start, stop and paramsets.
\* Of paramsets only the number of rows is kept here.
main_select(a, m, tasks, r) ==
    IF ~a.output
    THEN [NoMain EXCEPT !.pc = "error", !.error = "ValueError"]
    ELSE IF a.param_file # None
    THEN LET n == GenFromTxtLen(a.param_file[1], NPARAMS[m])
             se == get_mpi_idx(n, tasks, r)
         IN  IF a.param_file[1] <= 1
             \* all_paramsets[start:stop, :] on a 1-D array
             THEN [NoMain EXCEPT !.pc = "error", !.error = "IndexError",
                                 !.start = se[1], !.stop = se[2]]
             \* a slice with start >= stop is empty
             ELSE [NoMain EXCEPT !.pc = "selected", !.start = se[1], !.stop = se[2],
                                 !.nrows = Max(0, se[2] - se[1])]
    ELSE IF a.num # None /\ a.num[1] # 0
    THEN LET se == get_mpi_idx(a.num[1], tasks, r)
         IN  IF se[2] - se[1] < 0
             \* np.random.rand(n, ndim) with n < 0
             THEN [NoMain EXCEPT !.pc = "error", !.error = "ValueError",
                                 !.start = se[1], !.stop = se[2]]
             ELSE [NoMain EXCEPT !.pc = "selected", !.start = se[1], !.stop = se[2],
                                 !.nrows = se[2] - se[1]]
    ELSE \* --params, or DEFAULT_PARAMS[args.model]
         [NoMain EXCEPT !.pc = "selected", !.start = 0, !.stop = 1, !.nrows = 1]

\* run.py 398-400: buf = np.zeros(shape=(stop-start, ntimepts))
main_alloc(st) ==
    IF st.stop - st.start < 0
    THEN [st EXCEPT !.pc = "error", !.error = "ValueError"]
    ELSE [st EXCEPT !.pc = "allocated", !.bufrows = st.stop - st.start]

\* simulate raising after h.run() instead of before it
simulate_late_check(st, dt_ok, engine_ok) ==
    IF ~dt_ok \/ ~engine_ok
    THEN [st EXCEPT !.pc = "error", !.failed = TRUE, !.calls = @ + 1, !.runs = @ + 1,
                    !.error = IF ~dt_ok THEN "ValueError" ELSE "EngineError"]
    ELSE [st EXCEPT !.calls = @ + 1, !.runs = @ + 1, !.i = @ + 1]

\* the loop of main going on to the next sample when simulate raises
simulate_continue(st, dt_ok, engine_ok) ==
    IF ~dt_ok
    THEN [st EXCEPT !.failed = TRUE, !.calls = @ + 1, !.i = @ + 1]
    ELSE IF ~engine_ok
    THEN [st EXCEPT !.failed = TRUE, !.calls = @ + 1, !.runs = @ + 1, !.i = @ + 1]
    ELSE [st EXCEPT !.calls = @ + 1, !.runs = @ + 1, !.i = @ + 1]

\* run.py 402-407 with 296-375: one pass of main's loop.  simulate raises
\* ValueError before h.run() when h.dt differs from args.dt; the engine may
\* fail inside h.run(); otherwise the trace goes into buf[i].  An exception
\* leaves main, there is no handler.
simulate(st, dt_ok, engine_ok) ==
    IF ~dt_ok
    THEN [st EXCEPT !.pc = "error", !.error = "ValueError", !.failed = TRUE,
                    !.calls = @ + 1]
    ELSE IF ~engine_ok
    THEN [st EXCEPT !.pc = "error", !.error = "EngineError", !.failed = TRUE,
                    !.calls = @ + 1, !.runs = @ + 1]
    ELSE [st EXCEPT !.calls = @ + 1, !.runs = @ + 1, !.i = @ + 1]

\* the rows a slice start:stop selects in a dataset of n rows
SliceLen(start, stop, n) == Max(0, Min(stop, n) - Min(start, n))

\* paramsets is the plain list [DEFAULT_PARAMS[args.model]] (run.py 393-396)
IsDefaultPath(a) ==
    /\ a.param_file = None
    /\ (a.num = None \/ a.num[1] = 0)
    /\ ~a.params

\* run.py 216-231 for one rank: <<the rank's state, the file>> afterwards.
\* Mode 'a' creates a missing file; f['phys_par'] of a container without
\* datasets raises KeyError; an assignment whose selection has another
\* shape than params raises TypeError; np.min of a table without rows
\* raises ValueError; _normalize of a list raises AttributeError.
save_h5(st, f, a, m) ==
    LET st1 == [st EXCEPT !.saves = @ + 1]
        f1 == IF f.exists THEN f ELSE EmptyFile
        fail(e, w) == <<[st1 EXCEPT !.pc = "error", !.error = e, !.wrote = w], f1>>
    IN  IF "phys_par" \notin f1.datasets THEN fail("KeyError", {})
        ELSE IF SliceLen(st.start, st.stop, f1.nrows) # st.nrows \/ f1.ndim # NPARAMS[m]
        THEN fail("TypeError", {})
        ELSE IF st.nrows = 0 THEN fail("ValueError", {"phys_par"})
        ELSE IF IsDefaultPath(a) THEN fail("AttributeError", {"phys_par"})
        ELSE <<[st1 EXCEPT !.pc = "done",
                           !.wrote = {"phys_par", "norm_par", "voltages"}], f1>>

\* One mpirun of run.py: every rank runs main on the same command line.
\* The container is missing until a serial run with --create makes it.
Init ==
    /\ n_tasks \in 1 .. MaxRanks
    /\ nsamples = 0
    /\ idx = [r \in Ranks |-> NoIdx]
    /\ model \in Models
    /\ sampler = NoSampler
    /\ args \in {a \in [param_file : {None} \cup {<<k>> : k \in 0 .. MaxNum},
                         num : {None} \cup {<<k>> : k \in 0 .. MaxNum},
                         params : BOOLEAN,
                         output : BOOLEAN,
                         outfile : BOOLEAN,
                         dt_ok : BOOLEAN] : a.outfile => a.output}
    /\ main = [r \in Ranks |-> [NoMain EXCEPT !.pc = "start"]]
    /\ file = NoFile

\* run.py 456-457: an earlier serial run with --create, its own --model and
\* --num, before any rank of this run starts
CreateH5 ==
    /\ ~file.exists
    /\ \A r \in Ranks : main[r].pc = "start"
    /\ \E m \in Models, num \in {None} \cup {<<k>> : k \in 0 .. MaxNum} :
          file' = create_h5(m, CreateRows(num))
    /\ UNCHANGED <<n_tasks, nsamples, idx, model, sampler, args, main>>

MainSelect(r) ==
    /\ main[r].pc = "start"
    /\ main' = [main EXCEPT ![r] = main_select(args, model, n_tasks, r)]
    /\ UNCHANGED <<n_tasks, nsamples, idx, model, sampler, args, file>>

MainAlloc(r) ==
    /\ main[r].pc = "selected"
    /\ main' = [main EXCEPT ![r] = main_alloc(main[r])]
    /\ UNCHANGED <<n_tasks, nsamples, idx, model, sampler, args, file>>

\* run.py 402-407: the next sample of the rank's paramsets
MainSimulate(r) ==
    /\ main[r].pc = "allocated"
    /\ main[r].i < main[r].nrows
    /\ \E engine_ok \in BOOLEAN :
          main' = [main EXCEPT ![r] = simulate(main[r], args.dt_ok, engine_ok)]
    /\ UNCHANGED <<n_tasks, nsamples, idx, model, sampler, args, file>>

\* run.py 409-412: after the loop, save if --outfile was given
MainSave(r) ==
    /\ main[r].pc = "allocated"
    /\ main[r].i = main[r].nrows
    /\ IF args.outfile
       THEN LET res == save_h5(main[r], file, args, model)
            IN  main' = [main EXCEPT ![r] = res[1]] /\ file' = res[2]
       ELSE main' = [main EXCEPT ![r].pc = "done"] /\ UNCHANGED file
    /\ UNCHANGED <<n_tasks, nsamples, idx, model, sampler, args>>

Next ==
    \/ CreateH5
    \/ (\E r \in Ranks : MainSelect(r))
    \/ (\E r \in Ranks : MainAlloc(r))
    \/ (\E r \in Ranks : MainSimulate(r))
    \/ (\E r \in Ranks : MainSave(r))

Spec == Init /\ [][Next]_vars

\* C4 (as claimed): in a run partitioned by --num, a rank whose start is at
\* or past the sample count gets start = stop, and main's sampling and
\* buffer allocation for that rank raise no error.
C4_EmptyRangeNoError ==
    \A r \in Ranks :
        (/\ args.output /\ args.param_file = None
         /\ args.num # None /\ args.num[1] # 0
         /\ main[r].pc # "start"
         /\ main[r].start >= args.num[1])
        => (main[r].start = main[r].stop /\ main[r].error = "none")

\* ------------------------------------------------------ driver properties
\* C11 (as claimed): a container made by create_h5 for a model with D
\* parameters holds a D x 2 phys_par_range with that model's (min, max)
\* pairs in order, D being also the column count of phys_par and norm_par.
C11_RangeTableOfModel ==
    "phys_par_range" \in file.datasets =>
        /\ file.phys_par_range.nrows = NPARAMS[file.model]
        /\ file.phys_par_range.ncols = 2
        /\ file.phys_par_range.data = RANGES[file.model]
        /\ file.phys_par_range.nrows = file.ndim

\* C12: without any of plot-stim, plot-u, plot-v, outfile, force every rank
\* that has left the start of main has raised ValueError and simulate was
\* never called; with an integration step that h.stdinit() does not keep,
\* h.run() is never called and the first call of simulate raised ValueError.
C12_ConfigErrorsAbort ==
    /\ ~args.output =>
          \A r \in Ranks :
              /\ main[r].calls = 0 /\ main[r].runs = 0
              /\ main[r].pc # "start" =>
                    (main[r].pc = "error" /\ main[r].error = "ValueError")
    /\ ~args.dt_ok =>
          \A r \in Ranks :
              /\ main[r].runs = 0
              /\ main[r].calls > 0 =>
                    /\ main[r].calls = 1
                    /\ main[r].pc = "error" /\ main[r].error = "ValueError"

C12_Witness ==
    /\ ~args.dt_ok /\ args.output
    /\ \E r \in Ranks :
          main[r].calls = 1 /\ main[r].pc = "error" /\ main[r].nrows >= 1

\* the sample count a run asks the container to hold
Requested ==
    IF args.param_file # None
    THEN GenFromTxtLen(args.param_file[1], NPARAMS[model])
    ELSE IF args.num # None /\ args.num[1] # 0 THEN args.num[1] ELSE 1

\* C13 (as claimed): when a saving run meets a missing container, or one
\* with fewer rows than requested, no rank runs a simulation, no file is
\* created and no rows are written.
C13_FailFast ==
    (/\ args.outfile
     /\ \E r \in Ranks : main[r].pc # "start"
     /\ (~file.exists \/ file.datasets = {} \/ file.nrows < Requested))
    => /\ \A r \in Ranks : main[r].runs = 0 /\ main[r].wrote = {}
       /\ file.exists => file.datasets # {}

\* the rows of phys_par, norm_par or voltages rank r has written
RowsWritten(r) ==
    IF main[r].wrote = {} THEN {} ELSE main[r].start .. (main[r].stop - 1)

\* the run takes its samples from --param-file or --num, through get_mpi_idx
Partitioned == args.param_file # None \/ (args.num # None /\ args.num[1] # 0)

\* C14 (as claimed): whatever the sample source, two distinct ranks never
\* write the same row.
C14_DisjointWrites ==
    \A r, q \in Ranks : r # q => RowsWritten(r) \cap RowsWritten(q) = {}

\* C14 (amended): when the samples come from a parameter file or --num, two
\* distinct ranks never write the same row.
C14_DisjointWritesPartitioned ==
    Partitioned =>
        \A r, q \in Ranks : r # q => RowsWritten(r) \cap RowsWritten(q) = {}

C14_Witness ==
    /\ Partitioned
    /\ \E r, q \in Ranks :
          /\ r # q
          /\ main[r].pc = "done" /\ main[q].pc = "done"
          /\ RowsWritten(r) # {} /\ RowsWritten(q) # {}

\* C15: a rank on which simulate raised has stopped with that call, never
\* called save_h5 and has written no dataset.
C15_FailedBatchNotSaved ==
    \A r \in Ranks :
        main[r].failed =>
            /\ main[r].pc = "error"
            /\ main[r].calls = main[r].i + 1
            /\ main[r].saves = 0
            /\ main[r].wrote = {}

\* the second sample fails although the container could take the batch
C15_Witness ==
    \E r \in Ranks :
        /\ main[r].failed /\ main[r].error = "EngineError"
        /\ main[r].i >= 1
        /\ args.outfile
        /\ "phys_par" \in file.datasets
        /\ file.nrows >= main[r].stop /\ file.ndim = NPARAMS[model]

\* ------------------------------------------------------------ SpecSampler
\* One process draws an nsamples x D table (get_random_params) or is given
\* one (main: --param-file, --params or the defaults), and save_h5
\* normalizes it.
\* rows the caller may give: the defaults, the declared minima, the declared
\* maxima, and rows outside every declared range
GivenRows(m) ==
    LET D == NPARAMS[m]
    IN  {DEFAULT_PARAMS[m],
         [j \in 1 .. D |-> RANGES[m][j][1]],
         [j \in 1 .. D |-> RANGES[m][j][2]],
         [j \in 1 .. D |-> FromInt(0)],
         [j \in 1 .. D |-> Rat(-7, 3)],
         [j \in 1 .. D |-> FromInt(100)]}

InitSampler ==
    /\ n_tasks = 1
    /\ nsamples \in 0 .. MaxRows
    /\ idx = [r \in Ranks |-> NoIdx]
    /\ model \in Models
    /\ sampler = [NoSampler EXCEPT !.pc = "start"]
    /\ args = NoArgs
    /\ main = [r \in Ranks |-> NoMain]
    /\ file = NoFile

\* run.py 86-117
GetRandomParams ==
    /\ sampler.pc = "start"
    /\ \E rand \in [1 .. nsamples -> [1 .. NPARAMS[model] -> Draws]] :
          sampler' = [sampler EXCEPT
                         !.pc = "sampled",
                         !.params = get_random_params(model, nsamples, rand)]
    /\ UNCHANGED <<n_tasks, nsamples, idx, model, args, main, file>>

\* run.py 383-396: the table does not come from the sampler but from
\* --params or the defaults (one row) or from a parameter file (more rows)
GivenParams ==
    /\ sampler.pc = "start"
    /\ nsamples >= 1
    /\ \E rows \in [1 .. nsamples -> GivenRows(model)] :
          sampler' = [sampler EXCEPT
                         !.pc = "loaded",
                         !.params = Table(nsamples, NPARAMS[model], rows)]
    /\ UNCHANGED <<n_tasks, nsamples, idx, model, args, main, file>>

\* run.py 228: norm_par = _normalize(args, params[, minmax])
Normalize ==
    /\ sampler.pc \in {"sampled", "loaded"}
    /\ \E m \in 1 .. MaxMinmax :
          sampler' = [sampler EXCEPT
                         !.pc = IF sampler.pc = "sampled"
                                THEN "normalized_sampled" ELSE "normalized_loaded",
                         !.minmax = m,
                         !.norm = _normalize(model, sampler.params, m)]
    /\ UNCHANGED <<n_tasks, nsamples, idx, model, args, main, file>>

NextSampler == GetRandomParams \/ GivenParams \/ Normalize

SpecSampler == InitSampler /\ [][NextSampler]_vars

\* ------------------------------------------------ sampler properties
Cells(t) == {<<i, j>> : i \in 1 .. t.nrows, j \in 1 .. t.ncols}

HasInvertedRange(m) ==
    \E j \in 1 .. Len(RANGES[m]) : RLt(RANGES[m][j][2], RANGES[m][j][1])

\* C7 (as claimed): the sampler's table is nsamples x D and every value of
\* column j lies in [min_j, max_j) of the model's declared range.
C7_SampleInRange ==
    sampler.pc = "sampled" =>
        /\ sampler.params.nrows = nsamples
        /\ sampler.params.ncols = NPARAMS[model]
        /\ \A c \in Cells(sampler.params) :
              LET v == sampler.params.data[c[1]][c[2]]
              IN  /\ RLe(RANGES[model][c[2]][1], v)
                  /\ RLt(v, RANGES[model][c[2]][2])

\* C8 (as claimed): for a model with a range whose min exceeds its max the
\* sampler is stopped by an error and never returns a table of samples.
C8_InvertedRangeRejected ==
    HasInvertedRange(model) => ~(sampler.pc = "sampled" /\ sampler.params.nrows >= 1)

\* the inverse affine map x' = (y + minmax)*(max - min)/(2*minmax) + min
Denormalize(y, _range, minmax) ==
    RAdd(RDiv(RMul(RAdd(y, FromInt(minmax)), RSub(_range[2], _range[1])),
              FromInt(2 * minmax)),
         _range[1])

Normalized == sampler.pc \in {"normalized_sampled", "normalized_loaded"}

\* C9: every cell of the normalized table is mapped back to the physical
\* value it came from by the inverse affine map of its column.
C9_RoundTrip ==
    Normalized =>
        \A c \in Cells(sampler.params) :
            Denormalize(sampler.norm.data[c[1]][c[2]], RANGES[model][c[2]],
                        sampler.minmax)
            = sampler.params.data[c[1]][c[2]]

C9_Witness ==
    /\ sampler.pc = "normalized_loaded"
    /\ model = "hh"
    /\ sampler.minmax = 2
    /\ sampler.params.nrows >= 1
    /\ sampler.params.data[1][3] = FromInt(100)

\* C10: every normalized value of a table the sampler produced lies in
\* [-minmax, +minmax]; a value equal to its column's min is mapped to
\* -minmax and one equal to its column's max to +minmax.
C10_SymmetricRange ==
    /\ sampler.pc = "normalized_sampled" =>
          \A c \in Cells(sampler.norm) :
              LET y == sampler.norm.data[c[1]][c[2]]
              IN  /\ RLe(FromInt(-sampler.minmax), y)
                  /\ RLe(y, FromInt(sampler.minmax))
    /\ Normalized =>
          \A c \in Cells(sampler.norm) :
              LET x == sampler.params.data[c[1]][c[2]]
                  y == sampler.norm.data[c[1]][c[2]]
              IN  /\ x = RANGES[model][c[2]][1] => y = FromInt(-sampler.minmax)
                  /\ x = RANGES[model][c[2]][2] => y = FromInt(sampler.minmax)

C10_Witness ==
    /\ sampler.pc = "normalized_sampled"
    /\ model = "hh"
    /\ sampler.minmax = 2
    /\ sampler.params.nrows >= 1
    /\ sampler.params.data[1][3] = Rat(65, 200)
    /\ sampler.norm.data[1][3] = FromInt(0)

\* ---------------------------------------------------------------- SpecIdx
\* Every rank of an MPI job calls get_mpi_idx on the same nsamples.
InitIdx ==
    /\ n_tasks \in 1 .. MaxW
    /\ nsamples \in 0 .. MaxN
    /\ idx = [r \in Ranks |-> NoIdx]
    /\ model = "izhi"
    /\ sampler = NoSampler
    /\ args = NoArgs
    /\ main = [r \in Ranks |-> NoMain]
    /\ file = NoFile

CallGetMpiIdx(r) ==
    /\ idx[r] = NoIdx
    /\ idx' = [idx EXCEPT ![r] = get_mpi_idx(nsamples, n_tasks, r)]
    /\ UNCHANGED <<n_tasks, nsamples, model, sampler, args, main, file>>

NextIdx == \E r \in Ranks : CallGetMpiIdx(r)

SpecIdx == InitIdx /\ [][NextIdx]_vars

\* ------------------------------------------------- partitioner properties
AllIdx == \A r \in Ranks : idx[r] # NoIdx

Start(r) == idx[r][1]
Stop(r) == idx[r][2]

\* the sample indices of the half-open range [start, stop) of rank r
Indices(r) == Start(r) .. (Stop(r) - 1)

RECURSIVE SumLen(_)
SumLen(k) == IF k = 0 THEN 0 ELSE (Stop(k - 1) - Start(k - 1)) + SumLen(k - 1)

Ceil(a, b) == (a + b - 1) \div b

\* C1: once every rank has its range, the ranges [start, stop) are pairwise
\* disjoint as index sets and their union is exactly 0 .. nsamples-1.
C1_Partition ==
    AllIdx =>
        /\ \A r, s \in Ranks : r # s => Indices(r) \cap Indices(s) = {}
        /\ UNION {Indices(r) : r \in Ranks} = 0 .. (nsamples - 1)

\* 5 samples on 10 ranks: ranks 0..4 hold one index each, rank 6 holds none
C1_Witness ==
    /\ AllIdx /\ nsamples = 5 /\ n_tasks = 10
    /\ idx[4] = <<4, 5>> /\ idx[6] = <<6, 5>>

\* C2 (as claimed): the lengths stop - start of all ranks add up to nsamples.
C2_SumIsN == AllIdx => SumLen(n_tasks) = nsamples

C5_Contiguous ==
    AllIdx =>
        /\ \A r \in Ranks : Start(r) <= Stop(r)
        /\ \A r \in Ranks : r + 1 \in Ranks =>
                /\ Stop(r) = Start(r + 1)
                /\ Start(r) <= Start(r + 1)
                /\ Stop(r) <= Stop(r + 1)

\* C6: a single worker (rank 0 of 1) gets start = 0 and stop = nsamples.
C6_SingleWorker ==
    (n_tasks = 1 /\ idx[0] # NoIdx) => idx[0] = <<0, nsamples>>

C6_Witness == n_tasks = 1 /\ idx[0] # NoIdx /\ nsamples = MaxN
====
